---- MODULE Spec2Model ----
(***************************************************************************)
(* A model of exec-dir-mcp (src/src/exec_dir_mcp/main.py): the MCPServer   *)
(* object, its stdio run loop, the method dispatcher, the directory guard  *)
(* and the subprocess call with its timeout.                               *)
(*                                                                         *)
(* Strings that the code inspects character by character (paths) are       *)
(* sequences of one-character strings; a pathlib.Path is the sequence of   *)
(* its parts (each part a string).  JSON values are tagged records.        *)
(***************************************************************************)
EXTENDS Integers, Sequences, FiniteSets, TLC

\* Number of input lines the controller sends before it closes the stream.
MaxLines == 2

(***************************************************************************)
(* JSON values as json.loads produces them.                                *)
(***************************************************************************)
\* a key that is missing from a dict
Absent == [t |-> "absent", n |-> 0, s |-> <<>>]
\* JSON null, Python None
None == [t |-> "null", n |-> 0, s |-> <<>>]
JInt(n) == [t |-> "int", n |-> n, s |-> <<>>]
JStr(s) == [t |-> "str", n |-> 0, s |-> s]

\* dict.get(key, default): the default only replaces a missing key
Get(v, default) == IF v.t = "absent" THEN default ELSE v

\* Python truthiness of a value used with `or` (None and "" are falsy)
Truthy(v) ==
    CASE v.t = "str" -> v.s # <<>>
      [] v.t = "int" -> v.n # 0
      [] OTHER -> FALSE

(***************************************************************************)
(* Paths.  A name is a string, a path is the sequence of its parts, and    *)
(* the text of a path is "/" followed by its parts joined with "/".        *)
(***************************************************************************)
W == <<"w">>
WX == <<"w", "x">>
S == <<"s">>
F == <<"f">>
L == <<"l">>
E == <<"e">>
N == <<"n">>
DotDot == <<".", ".">>

\* str(PurePosixPath): "/" + "/".join(parts); the root is "/"
RECURSIVE JoinParts(_)
JoinParts(parts) ==
    IF parts = <<>> THEN <<>>
    ELSE <<"/">> \o Head(parts) \o JoinParts(Tail(parts))

PathStr(parts) == IF parts = <<>> THEN <<"/">> ELSE JoinParts(parts)

\* Path(text): split on "/", empty parts dropped ("/w//s/" has parts w, s);
\* ".." parts are kept, pathlib does not collapse them.
RECURSIVE SplitParts(_, _)
SplitParts(text, part) ==
    IF text = <<>>
    THEN IF part = <<>> THEN <<>> ELSE <<part>>
    ELSE IF Head(text) = "/"
         THEN (IF part = <<>> THEN <<>> ELSE <<part>>) \o SplitParts(Tail(text), <<>>)
         ELSE SplitParts(Tail(text), Append(part, Head(text)))

Path(text) == SplitParts(text, <<>>)

(***************************************************************************)
(* The filesystem the gateway runs on: /w with a subdirectory s, a regular *)
(* file f and a symlink l that leaves /w for its sibling /wx; /e; nothing  *)
(* at /n.                                                                  *)
(***************************************************************************)
FsDirs == { <<>>, <<W>>, <<W, S>>, <<WX>>, <<E>> }
FsFiles == { <<W, F>> }
FsLinks == [p \in { <<W, L>> } |-> <<WX>>]

\* Path.resolve() (os.path.realpath, strict=False): walk the parts left to
\* right, ".." drops the last resolved part, a symlink is replaced by its
\* target, a missing part is appended as it is.
RECURSIVE RealPath(_, _)
RealPath(done, rest) ==
    IF rest = <<>> THEN done
    ELSE LET seg == Head(rest)
             next == Append(done, seg)
         IN  IF seg = DotDot
             THEN RealPath(IF done = <<>> THEN <<>> ELSE SubSeq(done, 1, Len(done) - 1),
                           Tail(rest))
             ELSE IF next \in DOMAIN FsLinks
                  THEN RealPath(FsLinks[next], Tail(rest))
                  ELSE RealPath(next, Tail(rest))

resolve(parts) == RealPath(<<>>, parts)

exists(parts) == parts \in FsDirs \cup FsFiles

is_dir(parts) == parts \in FsDirs

\* relative_to as a comparison of the two path texts (str.startswith)
RECURSIVE StartsWith(_, _)
StartsWith(text, prefix) ==
    \/ prefix = <<>>
    \/ /\ text # <<>>
       /\ Head(text) = Head(prefix)
       /\ StartsWith(Tail(text), Tail(prefix))

relative_to_startswith(dir_path, allowed_path) ==
    StartsWith(PathStr(dir_path), PathStr(allowed_path))

\* PurePath.relative_to(other) raises ValueError unless other's parts are a
\* leading run of self's parts; TRUE when it does not raise.
relative_to(dir_path, allowed_path) ==
    /\ Len(allowed_path) <= Len(dir_path)
    /\ SubSeq(dir_path, 1, Len(allowed_path)) = allowed_path

(***************************************************************************)
(* What the controller can send.                                           *)
(***************************************************************************)
TextW == PathStr(<<W>>)
TextWS == PathStr(<<W, S>>)
TextWX == PathStr(<<WX>>)
TextWF == PathStr(<<W, F>>)
TextWL == PathStr(<<W, L>>)
TextE == PathStr(<<E>>)
TextN == PathStr(<<N>>)
\* "/w/s/..", which is /w
TextWSUp == PathStr(<<W, S, DotDot>>)
\* "/w/s/../../e/", which is /e
TextWSUpUpE == PathStr(<<W, S, DotDot, DotDot, E>>) \o <<"/">>

\* --dir and --allowed as given on the command line (main, lines 298-318)
DefaultDirs == { TextW }
AllowedLists == { <<>>, <<TextWSUp>>, <<TextWL, TextWS>> }

\* request.get("id"): a missing id and a null id both read as None
Ids == { None, JInt(1), JInt(2) }
\* request.get("method") and params.get("name") are strings, or None when the
\* key is missing; NoName stands for that None
NoName == "<none>"
Methods == { "initialize", "notifications/initialized", "tools/list", "tools/call",
             "unknown/thing", NoName }
ToolNames == { "execute_command", "other_tool", NoName }
Commands == { Absent, JStr(<<>>), JStr(<<"c">>) }
WorkingDirs == { Absent, JStr(<<>>) } \cup
               { JStr(d) : d \in { TextW, TextWS, TextWX, TextWF, TextWL, TextN,
                                   TextWSUpUpE } }
Timeouts == { Absent, None, JInt(-1), JInt(0), JInt(1), JStr(<<"x">>) }

\* The arguments dicts sent: every working_dir with a plain command and no
\* timeout, every timeout with a plain command in a directory that passes the
\* checks under every configuration (/w/s), and every command in that
\* directory and in one that fails the checks (/n is missing).
ArgumentDicts ==
    { [command |-> JStr(<<"c">>), working_dir |-> w, timeout |-> Absent] :
        w \in WorkingDirs } \cup
    { [command |-> JStr(<<"c">>), working_dir |-> JStr(TextWS), timeout |-> x] :
        x \in Timeouts } \cup
    { [command |-> c, working_dir |-> w, timeout |-> Absent] :
        c \in Commands, w \in { JStr(TextWS), JStr(TextN) } }

\* params.arguments: a missing key, a value that is no dict (null, a list,
\* a number), or a dict with the three keys the tool reads
NoFields == [command |-> Absent, working_dir |-> Absent, timeout |-> Absent]
ArgumentValues ==
    { [t |-> "absent", d |-> NoFields], [t |-> "nondict", d |-> NoFields] } \cup
    { [t |-> "dict", d |-> a] : a \in ArgumentDicts }

\* params: a missing key, a value that is no dict, or a dict with name and
\* arguments
NoParams == [name |-> NoName, arguments |-> [t |-> "absent", d |-> NoFields]]
ParamValues ==
    { [t |-> "absent", d |-> NoParams], [t |-> "nondict", d |-> NoParams] } \cup
    { [t |-> "dict", d |-> [name |-> "execute_command", arguments |-> a]] :
        a \in ArgumentValues } \cup
    { [t |-> "dict", d |-> [name |-> nm, arguments |-> [t |-> "absent", d |-> NoFields]]] :
        nm \in ToolNames }

\* A line that json.loads turns into a dict.  params only matter to
\* tools/call (handle_request reads them nowhere else).
Requests ==
    { [id |-> i, method |-> "tools/call", params |-> p] :
        i \in Ids, p \in ParamValues } \cup
    { [id |-> i, method |-> m, params |-> [t |-> "absent", d |-> NoParams]] :
        i \in Ids, m \in Methods \ { "tools/call" } }

\* How long a spawned command runs: None is a command that never exits.
Runtimes == { None, JInt(2) }
ExitCodes == { 0, 1 }
\* What a command writes to one of its pipes, as bytes: nothing, "a", the two
\* bytes of U+00E9, and "a" followed by a byte that is not UTF-8.
Streams == { <<>>, <<97>>, <<195, 169>>, <<97, 255>> }

(***************************************************************************)
(* Program constants.                                                      *)
(***************************************************************************)
DefaultTimeout == 30
ParseErrorCode == -32700
MethodNotFoundCode == -32601
InternalErrorCode == -32603

(***************************************************************************)
(* State.                                                                  *)
(***************************************************************************)
VARIABLES
    initialized,    \* MCPServer.initialized
    default_dir,    \* MCPServer.default_dir, a path text
    allowed_dirs,   \* MCPServer.allowed_dirs, a sequence of path texts
    allow_all,      \* MCPServer.allow_all
    pc,             \* where run is: "read" (at readline), "wait" (inside
                    \* wait_for, line 91), "done" (at the end of an
                    \* iteration), "stopped" (after the break)
    lineNo,         \* how many input lines run has read
    line,           \* the line of this iteration: its kind, and the id and
                    \* method of the request it parsed to
    request_id,     \* run's local request_id (line 255)
    call,           \* the frame of the execute_command call of this line
    steps,          \* the checks and calls this line's execute_command made
    children,       \* the status of every child process spawned, oldest first;
                    \* the child of this line's call runs in call.work_path
    response,       \* the value this iteration handed to send_response
    sent,           \* the lines this iteration wrote to standard output
    stdout          \* every line written to standard output, oldest first

vars == << initialized, default_dir, allowed_dirs, allow_all, pc, lineNo, line,
           request_id, call, steps, children, response, sent, stdout >>

config == << default_dir, allowed_dirs, allow_all >>

(***************************************************************************)
(* The result dict of execute_command and the dicts handle_request returns.*)
(***************************************************************************)
NoResult ==
    [success |-> FALSE, error |-> "", arg |-> <<>>, timeout |-> Absent,
     stdout |-> <<>>, stderr |-> <<>>, returncode |-> 0, working_dir |-> <<>>,
     command |-> Absent]

\* {"success": False, "error": f"<kind>: {arg}"}; a timeout message carries
\* the timeout value instead of a text
Failure(kind, arg, timeout) ==
    [NoResult EXCEPT !.error = kind, !.arg = arg, !.timeout = timeout]

\* bytes.decode('utf-8', errors='replace') (lines 98-99) over one- and two-byte
\* sequences: a text is the sequence of its code points, and a byte that
\* starts no valid sequence becomes U+FFFD.
RECURSIVE decode(_)
decode(bytes) ==
    IF bytes = <<>> THEN <<>>
    ELSE LET b == Head(bytes)
         IN  IF b < 128 THEN <<b>> \o decode(Tail(bytes))
             ELSE IF /\ b \in 194..223
                     /\ Len(bytes) >= 2
                     /\ bytes[2] \in 128..191
                  THEN <<(b - 192) * 64 + (bytes[2] - 128)>>
                       \o decode(SubSeq(bytes, 3, Len(bytes)))
                  ELSE <<65533>> \o decode(Tail(bytes))

\* the success dict with success computed from the exit status
Success_only_exit_zero(stdout_bytes, stderr_bytes, returncode, work_path, command) ==
    [NoResult EXCEPT !.success = (returncode = 0), !.stdout = decode(stdout_bytes),
                     !.stderr = decode(stderr_bytes), !.returncode = returncode,
                     !.working_dir = PathStr(work_path), !.command = command]

\* lines 96-103
Success(stdout_bytes, stderr_bytes, returncode, work_path, command) ==
    [NoResult EXCEPT !.success = TRUE, !.stdout = decode(stdout_bytes),
                     !.stderr = decode(stderr_bytes), !.returncode = returncode,
                     !.working_dir = PathStr(work_path), !.command = command]

\* A dict returned by handle_request: its top-level keys, the error code
\* under "error" and the execute_command result encoded under "content".
Dict(keys, code, result) == [none |-> FALSE, keys |-> keys, code |-> code, result |-> result]

NoneResponse == [none |-> TRUE, keys |-> {}, code |-> 0, result |-> NoResult]

ErrorDict(code) == Dict({"error"}, code, NoResult)

(***************************************************************************)
(* MCPServer.is_directory_allowed (lines 27-43).                           *)
(***************************************************************************)
\* the for loop of lines 34-41: the first allowed entry that relative_to
\* accepts ends it
RECURSIVE AllowedLoop(_, _)
AllowedLoop(dir_path, dirs) ==
    IF dirs = <<>> THEN FALSE
    ELSE LET allowed_path == resolve(Path(Head(dirs)))
         IN  IF relative_to(dir_path, allowed_path) THEN TRUE
             ELSE AllowedLoop(dir_path, Tail(dirs))

\* is_directory_allowed with a loop that accepts on its first entry whatever
\* relative_to says
is_directory_allowed_always(directory) == [allowed |-> TRUE, error_msg |-> NoResult]

\* returns (allowed, error_msg); the message names the directory it was given
is_directory_allowed(directory) ==
    IF allow_all THEN [allowed |-> TRUE, error_msg |-> NoResult]
    ELSE LET dir_path == resolve(Path(directory))
         IN  IF AllowedLoop(dir_path, allowed_dirs)
             THEN [allowed |-> TRUE, error_msg |-> NoResult]
             ELSE [allowed |-> FALSE,
                   error_msg |-> Failure("not_allowed", directory, Absent)]

(***************************************************************************)
(* MCPServer.execute_command (lines 45-118), up to the point where it      *)
(* either returns or suspends in wait_for.                                 *)
(***************************************************************************)
\* cwd is the cwd argument of the spawn (line 87), where the call comes to
\* it; exit_status, stdout_bytes and stderr_bytes are what the child of the
\* call did by the time communicate returned
NoCall ==
    [active |-> FALSE, command |-> Absent, timeout |-> Absent, target_dir |-> <<>>,
     work_path |-> <<>>, cwd |-> <<>>, runtime |-> None, exit_status |-> 0,
     stdout_bytes |-> <<>>, stderr_bytes |-> <<>>]

\* a spawn in the directory the request named, as it named it
spawn_cwd_unresolved(target_dir, work_path) == target_dir

\* line 87: cwd=str(work_path)
spawn_cwd(target_dir, work_path) == PathStr(work_path)

\* What asyncio.wait_for does with its timeout before it suspends: a value
\* that cannot be compared with 0 raises TypeError
WaitForRaises(timeout) == timeout.t \notin { "null", "int" }

\* create_subprocess_shell raises ValueError for a command that is no string
\* and OSError when the shell cannot be started (spawn_ok = FALSE)
SpawnRaises(command, spawn_ok) == command.t # "str" \/ ~spawn_ok

\* check_working_dir with the authorization asked first
check_working_dir_guard_first(target_dir) ==
    LET work_path == resolve(Path(target_dir))
        verdict == is_directory_allowed(PathStr(work_path))
    IN  CASE ~verdict.allowed ->
               [steps |-> <<"is_directory_allowed">>, ok |-> FALSE,
                result |-> verdict.error_msg]
          [] verdict.allowed /\ ~exists(work_path) ->
               [steps |-> <<"is_directory_allowed", "exists">>, ok |-> FALSE,
                result |-> Failure("not_found", target_dir, Absent)]
          [] verdict.allowed /\ exists(work_path) /\ ~is_dir(work_path) ->
               [steps |-> <<"is_directory_allowed", "exists", "is_dir">>, ok |-> FALSE,
                result |-> Failure("not_a_directory", target_dir, Absent)]
          [] OTHER ->
               [steps |-> <<"is_directory_allowed", "exists", "is_dir">>, ok |-> TRUE,
                result |-> NoResult]

\* Lines 57-76: the checks of the working directory, in the order the code
\* makes them, ending at the first that fails: the checks made, whether all
\* passed, and the failure returned otherwise.
check_working_dir(target_dir) ==
    LET work_path == resolve(Path(target_dir))
        verdict == is_directory_allowed(PathStr(work_path))
    IN  CASE ~exists(work_path) ->
               [steps |-> <<"exists">>, ok |-> FALSE,
                result |-> Failure("not_found", target_dir, Absent)]
          [] exists(work_path) /\ ~is_dir(work_path) ->
               [steps |-> <<"exists", "is_dir">>, ok |-> FALSE,
                result |-> Failure("not_a_directory", target_dir, Absent)]
          [] is_dir(work_path) /\ ~verdict.allowed ->
               [steps |-> <<"exists", "is_dir", "is_directory_allowed">>, ok |-> FALSE,
                result |-> verdict.error_msg]
          [] OTHER ->
               [steps |-> <<"exists", "is_dir", "is_directory_allowed">>, ok |-> TRUE,
                result |-> NoResult]

\* execute_command without the try of line 52 and the except of lines
\* 112-118: what create_subprocess_shell or wait_for raises leaves the call
execute_command_uncaught(command, working_dir, timeout, spawn_ok) ==
    LET target_dir == IF Truthy(working_dir) THEN working_dir.s ELSE default_dir
        checked == check_working_dir(target_dir)
        frame == [NoCall EXCEPT !.active = TRUE, !.command = command,
                                !.timeout = timeout, !.target_dir = target_dir,
                                !.work_path = resolve(Path(target_dir)),
                                !.cwd = spawn_cwd(target_dir, resolve(Path(target_dir)))]
        Out(st, spawned, suspended, raised, result) ==
            [steps |-> st, spawned |-> spawned, suspended |-> suspended,
             raised |-> raised, result |-> result, frame |-> frame]
    IN  CASE ~checked.ok ->
               Out(checked.steps, FALSE, FALSE, FALSE, checked.result)
          [] checked.ok /\ SpawnRaises(command, spawn_ok) ->
               Out(checked.steps \o <<"spawn">>, FALSE, FALSE, TRUE, NoResult)
          [] OTHER ->
               IF WaitForRaises(timeout)
               THEN Out(checked.steps \o <<"spawn", "wait_for">>, TRUE, FALSE, TRUE, NoResult)
               ELSE Out(checked.steps \o <<"spawn", "wait_for">>, TRUE, TRUE, FALSE, NoResult)

\* The outcome of the synchronous part: the steps made, whether a child was
\* created, whether the coroutine suspends in wait_for (result is then still
\* to come), whether an exception left the call (never: the try of line 52
\* spans the body and lines 112-118 catch Exception), and the result returned
\* otherwise.
execute_command(command, working_dir, timeout, spawn_ok) ==
    LET target_dir == IF Truthy(working_dir) THEN working_dir.s ELSE default_dir
        checked == check_working_dir(target_dir)
        frame == [NoCall EXCEPT !.active = TRUE, !.command = command,
                                !.timeout = timeout, !.target_dir = target_dir,
                                !.work_path = resolve(Path(target_dir)),
                                !.cwd = spawn_cwd(target_dir, resolve(Path(target_dir)))]
        Out(st, spawned, suspended, result) ==
            [steps |-> st, spawned |-> spawned, suspended |-> suspended,
             raised |-> FALSE, result |-> result, frame |-> frame]
    IN  CASE ~checked.ok ->
               Out(checked.steps, FALSE, FALSE, checked.result)
          [] checked.ok /\ SpawnRaises(command, spawn_ok) ->
               Out(checked.steps \o <<"spawn">>, FALSE, FALSE,
                   Failure("exception", <<>>, Absent))
          [] OTHER ->
               IF WaitForRaises(timeout)
               THEN Out(checked.steps \o <<"spawn", "wait_for">>, TRUE, FALSE,
                        Failure("exception", <<>>, Absent))
               ELSE Out(checked.steps \o <<"spawn", "wait_for">>, TRUE, TRUE, NoResult)

(***************************************************************************)
(* MCPServer.handle_request (lines 120-206).                               *)
(***************************************************************************)
NoExec == [steps |-> <<>>, spawned |-> FALSE, suspended |-> FALSE, raised |-> FALSE,
           result |-> NoResult, frame |-> NoCall]

\* tools/call with the tool execute_command: the content dict around the result
ContentDict(result) == Dict({"content"}, 0, result)

\* handle_request_on with tools/call refused until initialize was handled
handle_request_on_gated(self_initialized, request, spawn_ok) ==
    LET method == request.method
        params == request.params
        Ret(resp, init) == [kind |-> "return", response |-> resp, initialized |-> init,
                            exec |-> NoExec]
        Raise == [kind |-> "raise", response |-> NoneResponse,
                  initialized |-> self_initialized, exec |-> NoExec]
    IN  CASE method = "initialize" ->
               Ret(Dict({"protocolVersion", "serverInfo", "capabilities"}, 0, NoResult), TRUE)
          [] method = "notifications/initialized" ->
               Ret(NoneResponse, self_initialized)
          [] method = "tools/list" ->
               Ret(Dict({"tools"}, 0, NoResult), self_initialized)
          [] method = "tools/call" /\ ~self_initialized ->
               Ret(ErrorDict(InternalErrorCode), self_initialized)
          [] method = "tools/call" /\ self_initialized ->
               \* params.get on a value that is no dict raises AttributeError;
               \* a missing params key is the {} default of line 123
               IF params.t = "nondict" THEN Raise
               ELSE LET tool_name == params.d.name
                        arguments == params.d.arguments
                    IN  IF tool_name = "execute_command"
                        THEN IF arguments.t = "nondict" THEN Raise
                             ELSE LET exec == execute_command(
                                                  Get(arguments.d.command, None),
                                                  Get(arguments.d.working_dir, None),
                                                  Get(arguments.d.timeout, JInt(DefaultTimeout)),
                                                  spawn_ok)
                                  IN  IF exec.raised
                                      \* an exception of the awaited call goes
                                      \* on through line 176
                                      THEN [kind |-> "raise", response |-> NoneResponse,
                                            initialized |-> self_initialized, exec |-> exec]
                                      ELSE IF exec.suspended
                                      THEN [kind |-> "await", response |-> NoneResponse,
                                            initialized |-> self_initialized, exec |-> exec]
                                      ELSE [kind |-> "return",
                                            response |-> ContentDict(exec.result),
                                            initialized |-> self_initialized, exec |-> exec]
                        ELSE Ret(Dict({"content", "isError"}, 0, NoResult), self_initialized)
          [] OTHER -> Ret(ErrorDict(MethodNotFoundCode), self_initialized)

\* The outcome of the dispatch up to its return, its exception or the
\* suspension of the execute_command it awaits: kind is "return", "raise" or
\* "await".
\* self_initialized is self.initialized when the call is made.
handle_request_on(self_initialized, request, spawn_ok) ==
    LET method == request.method
        params == request.params
        Ret(resp, init) == [kind |-> "return", response |-> resp, initialized |-> init,
                            exec |-> NoExec]
        Raise == [kind |-> "raise", response |-> NoneResponse,
                  initialized |-> self_initialized, exec |-> NoExec]
    IN  CASE method = "initialize" ->
               Ret(Dict({"protocolVersion", "serverInfo", "capabilities"}, 0, NoResult), TRUE)
          [] method = "notifications/initialized" ->
               Ret(NoneResponse, self_initialized)
          [] method = "tools/list" ->
               Ret(Dict({"tools"}, 0, NoResult), self_initialized)
          [] method = "tools/call" ->
               \* params.get on a value that is no dict raises AttributeError;
               \* a missing params key is the {} default of line 123
               IF params.t = "nondict" THEN Raise
               ELSE LET tool_name == params.d.name
                        arguments == params.d.arguments
                    IN  IF tool_name = "execute_command"
                        THEN IF arguments.t = "nondict" THEN Raise
                             ELSE LET exec == execute_command(
                                                  Get(arguments.d.command, None),
                                                  Get(arguments.d.working_dir, None),
                                                  Get(arguments.d.timeout, JInt(DefaultTimeout)),
                                                  spawn_ok)
                                  IN  IF exec.raised
                                      \* an exception of the awaited call goes
                                      \* on through line 176
                                      THEN [kind |-> "raise", response |-> NoneResponse,
                                            initialized |-> self_initialized, exec |-> exec]
                                      ELSE IF exec.suspended
                                      THEN [kind |-> "await", response |-> NoneResponse,
                                            initialized |-> self_initialized, exec |-> exec]
                                      ELSE [kind |-> "return",
                                            response |-> ContentDict(exec.result),
                                            initialized |-> self_initialized, exec |-> exec]
                        ELSE Ret(Dict({"content", "isError"}, 0, NoResult), self_initialized)
          [] OTHER -> Ret(ErrorDict(MethodNotFoundCode), self_initialized)

\* handle_request on the server as it is now
handle_request(request, spawn_ok) == handle_request_on(initialized, request, spawn_ok)

(***************************************************************************)
(* MCPServer.send_response (lines 208-228): the lines the call writes (no  *)
(* line or one).  A written line is the set of its top-level keys, its id  *)
(* and the code under its error key (0 when it has a result key).         *)
(***************************************************************************)
\* send_response without the early return of lines 210-211
send_response_none_written(resp, req_id) ==
    LET with_id == IF req_id # None THEN { "jsonrpc", "id" } ELSE { "jsonrpc" }
    IN  IF "error" \in resp.keys
        THEN << [keys |-> with_id \cup { "error" }, id |-> req_id, code |-> resp.code] >>
        ELSE << [keys |-> with_id \cup { "result" }, id |-> req_id, code |-> 0] >>

send_response(resp, req_id) ==
    IF resp.none THEN <<>>
    ELSE LET with_id == IF req_id # None THEN { "jsonrpc", "id" } ELSE { "jsonrpc" }
         IN  IF "error" \in resp.keys
             THEN << [keys |-> with_id \cup { "error" }, id |-> req_id,
                      code |-> resp.code] >>
             ELSE << [keys |-> with_id \cup { "result" }, id |-> req_id, code |-> 0] >>

\* Standard output after the lines `written` went out while input line n was
\* handled: of each line the stream keeps which input line it answers and its
\* error code.
Flushed(out, written, n) ==
    out \o [i \in 1..Len(written) |-> [line |-> n, code |-> written[i].code]]

(***************************************************************************)
(* MCPServer.__init__ (lines 14-20) with the configuration main passes it. *)
(***************************************************************************)
\* kind: "none" (nothing read yet), "eof", "blank", "unparsable", "not_object",
\* "request"; for a request its id, its method, the tool it names when
\* handle_request came to read the name, and how handle_request ended
\* ("return", "raise", "await")
NoLine == [kind |-> "none", id |-> None, method |-> NoName, tool |-> NoName,
           outcome |-> "none"]

\* params.get("name") as handle_request reads it at line 172
ToolRead(request) ==
    IF request.method = "tools/call" /\ request.params.t # "nondict"
    THEN request.params.d.name ELSE NoName

\* an __init__ that allows every directory whatever the list holds
AllowAllOf_always(dirs) == TRUE

\* line 20: len(self.allowed_dirs) == 0
AllowAllOf(dirs) == Len(dirs) = 0

Init ==
    /\ initialized = FALSE
    /\ default_dir \in DefaultDirs
    /\ allowed_dirs \in AllowedLists
    /\ allow_all = AllowAllOf(allowed_dirs)
    /\ pc = "read"
    /\ lineNo = 0
    /\ line = NoLine
    /\ request_id = None
    /\ call = NoCall
    /\ steps = <<>>
    /\ children = <<>>
    /\ response = NoneResponse
    /\ sent = <<>>
    /\ stdout = <<>>

(***************************************************************************)
(* MCPServer.run (lines 239-278): one action per way an iteration of the   *)
(* loop can go.  An iteration that awaits a subprocess is split at the     *)
(* await of line 91 and finished by WaitDone or WaitTimeout.               *)
(***************************************************************************)
\* The loop is at readline only when the previous iteration is over: the
\* handler is awaited inline (line 257).
AtReadline == pc = "read"

\* a loop that starts the handler as a task and goes back to readline
CanRead_concurrent == pc \in { "read", "wait" } /\ lineNo < MaxLines

\* the controller has more to send and run is at readline
CanRead == AtReadline /\ lineNo < MaxLines

\* lines 244-246: readline returned "", the stream has ended
ReadEOF ==
    /\ AtReadline
    /\ pc' = "stopped"
    /\ line' = [NoLine EXCEPT !.kind = "eof"]
    /\ UNCHANGED << initialized, config, lineNo, request_id, call, steps, children,
                    response, sent, stdout >>

\* ReadBlank as a loop that answers a blank line like an unparsable one
ReadBlank_answered ==
    /\ CanRead
    /\ lineNo' = lineNo + 1
    /\ line' = [NoLine EXCEPT !.kind = "blank"]
    /\ call' = NoCall
    /\ steps' = <<>>
    /\ response' = ErrorDict(ParseErrorCode)
    /\ sent' = send_response(response', None)
    /\ stdout' = Flushed(stdout, sent', lineNo')
    /\ pc' = "done"
    /\ UNCHANGED << initialized, config, request_id, children >>

\* lines 248-250: a line that is empty once stripped
ReadBlank ==
    /\ CanRead
    /\ lineNo' = lineNo + 1
    /\ line' = [NoLine EXCEPT !.kind = "blank"]
    /\ call' = NoCall
    /\ steps' = <<>>
    /\ response' = NoneResponse
    /\ sent' = <<>>
    /\ pc' = "done"
    /\ UNCHANGED << initialized, config, request_id, children, stdout >>

\* a loop whose try does not catch JSONDecodeError: run ends
ReadUnparsable_uncaught ==
    /\ CanRead
    /\ lineNo' = lineNo + 1
    /\ line' = [NoLine EXCEPT !.kind = "unparsable"]
    /\ pc' = "stopped"
    /\ UNCHANGED << initialized, config, request_id, call, steps, children, response,
                    sent, stdout >>

\* lines 260-268: json.loads raised JSONDecodeError
ReadUnparsable ==
    /\ CanRead
    /\ lineNo' = lineNo + 1
    /\ line' = [NoLine EXCEPT !.kind = "unparsable"]
    /\ call' = NoCall
    /\ steps' = <<>>
    /\ response' = ErrorDict(ParseErrorCode)
    /\ sent' = send_response(response', None)
    /\ stdout' = Flushed(stdout, sent', lineNo')
    /\ pc' = "done"
    /\ UNCHANGED << initialized, config, request_id, children >>

\* A line that is JSON but no object ([1], 0, "x", null): request.get raises
\* AttributeError at line 252 or 255, before request_id is assigned, and the
\* handler of lines 270-278 answers.
ReadNotObject ==
    /\ CanRead
    /\ lineNo' = lineNo + 1
    /\ line' = [NoLine EXCEPT !.kind = "not_object"]
    /\ call' = NoCall
    /\ steps' = <<>>
    /\ response' = ErrorDict(InternalErrorCode)
    /\ sent' = send_response(response', None)
    /\ stdout' = Flushed(stdout, sent', lineNo')
    /\ pc' = "done"
    /\ UNCHANGED << initialized, config, request_id, children >>

\* the OS can refuse a spawn only where one is attempted
SpawnOutcomes(request) == IF request.method = "tools/call" THEN BOOLEAN ELSE { TRUE }

\* lines 252-258 and 270-278: a line that parses to a dict
ReadRequest ==
    /\ CanRead
    /\ \E request \in Requests :
       \E spawn_ok \in SpawnOutcomes(request) :
          LET h == handle_request(request, spawn_ok)
          IN  /\ lineNo' = lineNo + 1
              /\ line' = [kind |-> "request", id |-> request.id, method |-> request.method,
                           tool |-> ToolRead(request), outcome |-> h.kind]
              /\ request_id' = request.id
              /\ initialized' = h.initialized
              /\ steps' = h.exec.steps
              /\ \E runtime \in (IF h.exec.spawned THEN Runtimes ELSE { None }) :
                    /\ call' = [h.exec.frame EXCEPT !.runtime = runtime]
                    /\ children' = IF h.exec.spawned THEN Append(children, "running")
                                    ELSE children
              /\ CASE h.kind = "return" ->
                        /\ response' = h.response
                        /\ sent' = send_response(response', request_id')
                        /\ stdout' = Flushed(stdout, sent', lineNo')
                        /\ pc' = "done"
                   [] h.kind = "raise" ->
                        /\ response' = ErrorDict(InternalErrorCode)
                        /\ sent' = send_response(response', None)
                        /\ stdout' = Flushed(stdout, sent', lineNo')
                        /\ pc' = "done"
                   [] OTHER ->
                        /\ response' = NoneResponse
                        /\ sent' = <<>>
                        /\ stdout' = stdout
                        /\ pc' = "wait"
              /\ UNCHANGED config

\* wait_for(process.communicate(), timeout): who wins.  The command exits
\* after call.runtime, the deadline passes after call.timeout; a timeout of
\* None is no deadline, a timeout <= 0 has passed before the wait starts.
CommandExitsFirst ==
    /\ call.runtime # None
    /\ \/ call.timeout = None
       \/ call.timeout.n > 0 /\ call.runtime.n <= call.timeout.n

DeadlinePassesFirst ==
    /\ call.timeout # None
    /\ \/ call.timeout.n <= 0
       \/ call.runtime = None
       \/ call.runtime.n >= call.timeout.n

SetLast(seq, status) == [seq EXCEPT ![Len(seq)] = status]

\* the except branch without its kill
process_kill_missing(procs) == procs

\* process.kill() (line 106): SIGKILL to the child of this call
process_kill(procs) == SetLast(procs, "killed")

\* lines 91-103: communicate returned in time; the handler returns and run
\* writes the response (lines 182-189, 258)
WaitDone ==
    /\ pc = "wait"
    /\ CommandExitsFirst
    /\ \E exit_status \in ExitCodes, stdout_bytes \in Streams, stderr_bytes \in Streams :
          /\ call' = [call EXCEPT !.exit_status = exit_status,
                                  !.stdout_bytes = stdout_bytes,
                                  !.stderr_bytes = stderr_bytes]
          /\ response' = ContentDict(Success(stdout_bytes, stderr_bytes, exit_status,
                                             call.work_path, call.command))
    /\ children' = SetLast(children, "exited")
    /\ steps' = Append(steps, "communicate")
    /\ sent' = send_response(response', request_id)
    /\ stdout' = Flushed(stdout, sent', lineNo)
    /\ pc' = "done"
    /\ UNCHANGED << initialized, config, lineNo, line, request_id >>

\* lines 105-110: wait_for raised TimeoutError
WaitTimeout ==
    /\ pc = "wait"
    /\ DeadlinePassesFirst
    /\ response' = ContentDict(Failure("timeout", <<>>, call.timeout))
    /\ children' = process_kill(children)
    /\ steps' = Append(steps, "kill")
    /\ sent' = send_response(response', request_id)
    /\ stdout' = Flushed(stdout, sent', lineNo)
    /\ pc' = "done"
    /\ UNCHANGED << initialized, config, lineNo, line, request_id, call >>

\* The back edge of `while True` (and the `continue` of line 250): the
\* iteration's locals are dead, run is at readline again.
LoopBack ==
    /\ pc = "done"
    /\ pc' = "read"
    /\ line' = NoLine
    /\ request_id' = None
    /\ call' = NoCall
    /\ steps' = <<>>
    /\ response' = NoneResponse
    /\ sent' = <<>>
    /\ UNCHANGED << initialized, config, lineNo, children, stdout >>

Next ==
    \/ LoopBack
    \/ ReadEOF
    \/ ReadBlank
    \/ ReadUnparsable
    \/ ReadNotObject
    \/ ReadRequest
    \/ WaitDone
    \/ WaitTimeout

Spec == Init /\ [][Next]_vars

\* The event loop runs a callback that is due: the child's exit and the
\* deadline's timer both wake the coroutine.  Nothing obliges the controller
\* to send another line.
FairSpec == Spec /\ WF_vars(WaitDone) /\ WF_vars(WaitTimeout)

(***************************************************************************)
(* Properties.                                                             *)
(***************************************************************************)
Range(seq) == { seq[i] : i \in 1..Len(seq) }

\* the lines written while input line n was handled
OutputsFor(n) == { i \in 1..Len(stdout) : stdout[i].line = n }

\* The canonical form each path text has on this filesystem, written down
\* part by part: /w/l is a symlink to /wx, ".." leaves a directory.
Canonical(text) ==
    CASE text = TextW -> <<W>>
      [] text = TextWS -> <<W, S>>
      [] text = TextWX -> <<WX>>
      [] text = TextWF -> <<W, F>>
      [] text = TextWL -> <<WX>>
      [] text = TextE -> <<E>>
      [] text = TextN -> <<N>>
      [] text = TextWSUp -> <<W>>
      [] text = TextWSUpUpE -> <<E>>

PathTexts == { TextW, TextWS, TextWX, TextWF, TextWL, TextE, TextN, TextWSUp, TextWSUpUpE }

\* p is root or lies below it: root is reached from p by going to the parent
RECURSIVE EqualOrBelow(_, _)
EqualOrBelow(p, root) ==
    \/ p = root
    \/ p # <<>> /\ EqualOrBelow(SubSeq(p, 1, Len(p) - 1), root)

\* the authorization rule of the data model
Authorized(text) ==
    \/ Len(allowed_dirs) = 0
    \/ \E i \in 1..Len(allowed_dirs) :
          EqualOrBelow(Canonical(text), Canonical(allowed_dirs[i]))

KnownMethods == { "initialize", "notifications/initialized", "tools/list", "tools/call" }

\* C1 as stated: every line that parses to a request with a non-null id has
\* exactly one output line once its iteration is over, and a
\* notifications/initialized request has none.
C1_OneLinePerId ==
    pc = "done" /\ line.kind = "request" =>
        /\ line.id # None => Cardinality(OutputsFor(lineNo)) = 1
        /\ line.method = "notifications/initialized" => OutputsFor(lineNo) = {}

\* C1 amended: no input line has more than one output line; at the end of the
\* iteration that handled it, a request with a non-null id and a method other
\* than notifications/initialized has exactly one, and a
\* notifications/initialized request has none, whatever its id.
C1_OneLinePerAnsweredId ==
    /\ \A n \in 1..lineNo : Cardinality(OutputsFor(n)) <= 1
    /\ pc = "done" /\ line.kind = "request" =>
          /\ line.id # None /\ line.method # "notifications/initialized"
                => Cardinality(OutputsFor(lineNo)) = 1
          /\ line.method = "notifications/initialized" => OutputsFor(lineNo) = {}

\* the second line is a notifications/initialized request with id 2: it is
\* over and only the first line has an output line
C1_Witness ==
    /\ pc = "done"
    /\ lineNo = 2
    /\ line.method = "notifications/initialized"
    /\ line.id = JInt(2)
    /\ sent = <<>>
    /\ Len(stdout) = 1
    /\ stdout[1].line = 1

\* C2: a written response carries the id of the request it answers whenever
\* that request had a non-null id, on every outcome path; the id is left out
\* only for a request without id or a line that did not parse to a request.
C2_IdEchoed ==
    pc = "done" =>
        \A i \in 1..Len(sent) :
            /\ line.kind = "request" /\ line.id # None
                  => "id" \in sent[i].keys /\ sent[i].id = line.id
            /\ "id" \notin sent[i].keys
                  => line.kind # "request" \/ line.id = None

\* C3: a child is spawned only in an authorized working directory, and a call
\* whose working directory is not authorized ends in a failure result without
\* a spawn.
C3_SpawnOnlyWhereAuthorized ==
    call.active =>
        /\ "wait_for" \in Range(steps) => Authorized(call.target_dir)
        /\ ~Authorized(call.target_dir) =>
              /\ "spawn" \notin Range(steps)
              /\ pc # "wait"
              /\ pc = "done" =>
                    /\ ~response.result.success
                    /\ response.result.error \in { "not_found", "not_a_directory",
                                                   "not_allowed" }

\* allowed is /w; a call in /w/../e, which exists and is a directory, was
\* refused by the guard, and an earlier call in /w/s spawned a child
C3_Witness ==
    /\ pc = "done"
    /\ allowed_dirs = <<TextWSUp>>
    /\ call.target_dir = TextWSUpUpE
    /\ response.result.error = "not_allowed"
    /\ response.result.arg = TextE
    /\ "spawn" \notin Range(steps)
    /\ children = <<"exited">>

\* C4: is_directory_allowed accepts a path exactly when the list is empty or
\* the path's canonical form is an allowed root's canonical form or lies below
\* it, part by part.
C4_GuardIsContainment ==
    \A text \in PathTexts :
        is_directory_allowed(text).allowed <=> Authorized(text)

\* allowed is /w and the guard, called for /wx, refused it
C4_Witness ==
    /\ pc = "done"
    /\ allowed_dirs = <<TextWSUp>>
    /\ call.target_dir = TextWX
    /\ steps = <<"exists", "is_dir", "is_directory_allowed">>
    /\ response.result.error = "not_allowed"
    /\ ~is_directory_allowed(TextWX).allowed

\* C5: requests are handled strictly one at a time.  A line is read only at
\* readline with the previous iteration over, nothing is read while a command
\* is awaited, and every output line is appended for the line being handled,
\* after the output lines of all earlier input lines.
C5_OneRequestAtATime ==
    [][ /\ lineNo' # lineNo => pc = "read" /\ lineNo' = lineNo + 1
        /\ pc = "wait" => lineNo' = lineNo /\ line' = line /\ pc' \in { "wait", "done" }
        /\ stdout' # stdout =>
              /\ Len(stdout') = Len(stdout) + 1
              /\ SubSeq(stdout', 1, Len(stdout)) = stdout
              /\ stdout'[Len(stdout')].line = lineNo'
              /\ \A i \in 1..Len(stdout) : stdout[i].line < lineNo'
      ]_vars

\* the first line was answered, the second ran a command into its deadline
\* and was answered after it
C5_Witness ==
    /\ pc = "done"
    /\ lineNo = 2
    /\ "kill" \in Range(steps)
    /\ Len(stdout) = 2
    /\ stdout[1].line = 1
    /\ stdout[2].line = 2

\* C6: a request with a non-null id whose command is being awaited is
\* answered in the end, whatever timeout it carries.
C6_EveryRequestAnswered ==
    (pc = "wait" /\ request_id # None) ~> (OutputsFor(lineNo) # {})

\* the command of this call runs past its timeout
RunsPastTimeout ==
    /\ call.timeout.t = "int"
    /\ call.runtime = None \/ call.runtime.n > call.timeout.n

\* C7: a command that runs past its timeout ends in a failure that names the
\* timeout, with its child killed before the result is returned; a success is
\* only ever the result of a command that exited before its deadline.
C7_TimeoutKills ==
    pc = "done" /\ call.active /\ "wait_for" \in Range(steps)
                /\ call.timeout.t \in { "int", "null" } =>
        LET result == response.result
            TimedOut == /\ ~result.success
                        /\ result.error = "timeout"
                        /\ result.timeout = call.timeout
                        /\ children[Len(children)] = "killed"
        IN  /\ RunsPastTimeout => TimedOut
            /\ "kill" \in Range(steps) => TimedOut
            /\ result.success =>
                  /\ ~RunsPastTimeout
                  /\ "kill" \notin Range(steps)
                  /\ children[Len(children)] = "exited"

\* a command that runs 2 seconds under a timeout of 1 was killed
C7_Witness ==
    /\ pc = "done"
    /\ call.timeout = JInt(1)
    /\ call.runtime = JInt(2)
    /\ response.result.error = "timeout"
    /\ response.result.timeout = JInt(1)
    /\ children = <<"killed">>

\* C8: a written response has exactly one of result and error; error is
\* there exactly for an unparsable line (-32700), a method outside the known
\* four (-32601) and an exception that escaped handle_request (-32603); a
\* failure of the tool or of the execution, and an unknown tool name (flagged
\* isError), are in result.
C8_ErrorFieldForProtocolCauses ==
    pc = "done" =>
        \A i \in 1..Len(sent) :
            LET e == sent[i]
                Unparsable == line.kind = "unparsable"
                UnknownMethod == line.kind = "request" /\ line.method \notin KnownMethods
                Escaped == line.kind = "request" /\ line.outcome = "raise"
            IN  /\ ("result" \in e.keys) # ("error" \in e.keys)
                /\ "error" \in e.keys <=> Unparsable \/ UnknownMethod \/ Escaped
                /\ e.code = ParseErrorCode <=> Unparsable
                /\ e.code = MethodNotFoundCode <=> UnknownMethod
                /\ e.code = InternalErrorCode <=> Escaped
                /\ call.active /\ ~response.result.success => "result" \in e.keys
                /\ line.method = "tools/call" /\ line.outcome = "return"
                      /\ line.tool # "execute_command"
                      => "result" \in e.keys /\ "isError" \in response.keys

\* the order of the calls execute_command makes
CallOrder == <<"exists", "is_dir", "is_directory_allowed", "spawn", "wait_for">>

\* C9: the working directory is checked for existence, then for being a
\* directory, then for authorization, and the first failure ends the call: a
\* missing directory is reported as not found whatever the allow-list, an
\* existing path that is no directory as not a directory, and in both cases
\* neither is_directory_allowed nor the spawn is reached.
C9_ChecksInOrder ==
    call.active =>
        LET where == Canonical(call.target_dir)
            result == response.result
        IN  /\ \A i \in 1..Len(steps) : i <= Len(CallOrder) => steps[i] = CallOrder[i]
            /\ where \notin FsDirs \cup FsFiles =>
                  /\ steps = <<"exists">>
                  /\ pc = "done"
                  /\ result.error = "not_found" /\ result.arg = call.target_dir
            /\ where \in FsFiles =>
                  /\ steps = <<"exists", "is_dir">>
                  /\ pc = "done"
                  /\ result.error = "not_a_directory" /\ result.arg = call.target_dir
            /\ pc = "done" /\ result.error = "not_allowed" =>
                  steps = <<"exists", "is_dir", "is_directory_allowed">>

\* /n is missing and outside the allowed /w: the call ended at the first check
C9_Witness ==
    /\ pc = "done"
    /\ allowed_dirs = <<TextWSUp>>
    /\ call.target_dir = TextN
    /\ steps = <<"exists">>
    /\ response.result.error = "not_found"

\* C10: the loop survives bad input.  An unparsable line is answered by
\* exactly one -32700 response without id, an exception that escaped
\* handle_request by exactly one -32603 response, the iteration ends like any
\* other (run goes back to readline), and run stops only at end of file.
C10_LoopSurvivesBadInput ==
    LET Only(code) == /\ Cardinality(OutputsFor(lineNo)) = 1
                      /\ \A i \in OutputsFor(lineNo) : stdout[i].code = code
    IN  /\ line.kind = "unparsable" =>
              /\ pc = "done"
              /\ Only(ParseErrorCode)
              /\ \A i \in 1..Len(sent) : "id" \notin sent[i].keys
        /\ line.kind = "request" /\ line.outcome = "raise" =>
              /\ pc = "done"
              /\ Only(InternalErrorCode)
        /\ line.kind = "not_object" => pc = "done"
        /\ pc = "stopped" <=> line.kind = "eof"

\* an unparsable line, then a request whose handler raised: both answered,
\* run is at the end of the second iteration
C10_Witness ==
    /\ pc = "done"
    /\ lineNo = 2
    /\ line.outcome = "raise"
    /\ Len(stdout) = 2
    /\ stdout[1].code = ParseErrorCode
    /\ stdout[1].line = 1
    /\ stdout[2].code = InternalErrorCode
    /\ stdout[2].line = 2

\* UTF-8 of a text (code points below 2048, and U+FFFD)
RECURSIVE encode(_)
encode(text) ==
    IF text = <<>> THEN <<>>
    ELSE LET c == Head(text)
         IN  (IF c < 128 THEN <<c>>
              ELSE IF c < 2048 THEN <<192 + (c \div 64), 128 + (c % 64)>>
              ELSE <<239, 191, 189>>) \o encode(Tail(text))

\* The text each stream reads as, written down byte by byte: "a" is U+0061,
\* 195 169 is U+00E9, and 255 is no UTF-8 and reads as U+FFFD.
TextOf(bytes) ==
    CASE bytes = <<>> -> <<>>
      [] bytes = <<97>> -> <<97>>
      [] bytes = <<195, 169>> -> <<233>>
      [] bytes = <<97, 255>> -> <<97, 65533>>

ValidUtf8 == { <<>>, <<97>>, <<195, 169>> }

\* the command of this call was awaited and exited before its deadline
CompletedInTime ==
    /\ pc = "done"
    /\ call.active
    /\ "communicate" \in Range(steps)

\* what C11 says of the result apart from the two streams
C11_ResultFields ==
    LET result == response.result
    IN  /\ result.success
        /\ result.returncode = call.exit_status
        /\ result.command = call.command
        /\ result.working_dir = PathStr(Canonical(call.target_dir))

\* C11 as stated: a command that completes before its timeout has success
\* true whatever its exit status, the real exit status, the original command,
\* the resolved working directory, and stdout and stderr exactly as the
\* process wrote them: the bytes of each text are the bytes written.
C11_StreamsAsWritten ==
    CompletedInTime =>
        /\ C11_ResultFields
        /\ encode(response.result.stdout) = call.stdout_bytes
        /\ encode(response.result.stderr) = call.stderr_bytes

\* C11 amended: the two streams are reported each as its own text, decoded
\* as UTF-8 with every byte that is no UTF-8 replaced by U+FFFD; they are
\* exactly what the process wrote when it wrote UTF-8.
C11_StreamsDecoded ==
    CompletedInTime =>
        LET result == response.result
        IN  /\ C11_ResultFields
            /\ result.stdout = TextOf(call.stdout_bytes)
            /\ result.stderr = TextOf(call.stderr_bytes)
            /\ call.stdout_bytes \in ValidUtf8 => encode(result.stdout) = call.stdout_bytes
            /\ call.stderr_bytes \in ValidUtf8 => encode(result.stderr) = call.stderr_bytes

\* a command in /w/s/../../e/ exited with status 1, wrote U+00E9 to stdout and
\* "a" and a byte that is no UTF-8 to stderr, and was reported a success
C11_Witness ==
    /\ CompletedInTime
    /\ call.target_dir = TextWSUpUpE
    /\ call.exit_status = 1
    /\ call.stdout_bytes = <<195, 169>>
    /\ call.stderr_bytes = <<97, 255>>
    /\ response.result.success
    /\ response.result.returncode = 1
    /\ response.result.stdout = <<233>>
    /\ response.result.stderr = <<97, 65533>>
    /\ response.result.working_dir = TextE

\* how often execute_command made the call `step` for this line
Count(step) == Cardinality({ i \in 1..Len(steps) : steps[i] = step })

\* the children that are still running
Alive == { i \in 1..Len(children) : children[i] = "running" }

\* C12: a call spawns at most one child and retries nothing, the child of a
\* call that has returned has exited or was killed, on every return path
\* after the spawn, and at most one child is alive at any time.
C12_OneChildPerCall ==
    /\ Count("spawn") <= 1
    /\ Len(children) <= lineNo
    /\ pc = "done" /\ call.active /\ "wait_for" \in Range(steps)
          => children[Len(children)] \in { "exited", "killed" }
    /\ Cardinality(Alive) <= 1

\* C13: the timeout that reaches the subprocess wait is a positive integer,
\* whatever timeout the request carried.
C13_PositiveTimeoutAtWait ==
    call.active /\ "wait_for" \in Range(steps) =>
        /\ call.timeout.t = "int"
        /\ call.timeout.n > 0

\* C14: a call whose command is missing or empty is rejected before any check
\* of the working directory is made, and spawns nothing.
C14_CommandValidatedFirst ==
    call.active /\ call.command \in { None, JStr(<<>>) } =>
        /\ steps = <<>>
        /\ pc = "done"
        /\ ~response.result.success

\* C15: no fault leaves execute_command.  A tools/call that reached it is
\* never answered by the -32603 response: what is written carries a result,
\* and a spawn that failed, or an exception raised by the wait, is a result
\* with success false and an error message.
C15_NoFaultEscapes ==
    call.active =>
        /\ line.outcome # "raise"
        /\ pc = "done" =>
              /\ Len(sent) = 1
              /\ "result" \in sent[1].keys
              /\ "error" \notin sent[1].keys
              /\ sent[1].code # InternalErrorCode
              /\ "content" \in response.keys
              /\ ("communicate" \notin Range(steps) /\ "kill" \notin Range(steps)
                  /\ "spawn" \in Range(steps))
                    => ~response.result.success /\ response.result.error = "exception"

\* the shell could not be started for a plain command in /w/s: the call
\* returned the failure and the request with id 1 got a result
C15_Witness ==
    /\ pc = "done"
    /\ call.active
    /\ call.command = JStr(<<"c">>)
    /\ call.target_dir = TextWS
    /\ steps = <<"exists", "is_dir", "is_directory_allowed", "spawn">>
    /\ children = <<>>
    /\ response.result.error = "exception"
    /\ Len(sent) = 1
    /\ sent[1].id = JInt(1)
    /\ "result" \in sent[1].keys

\* C16: a blank line is skipped.  Reading it writes nothing, dispatches no
\* handler, spawns nothing and changes no server state, and the iteration ends
\* at the loop's back edge, from where the next line is read; end of file
\* stops the loop and writes nothing.
C16_BlankSkippedEofStops ==
    [][ /\ line'.kind = "blank" /\ lineNo' # lineNo =>
              /\ stdout' = stdout
              /\ sent' = <<>>
              /\ ~call'.active
              /\ steps' = <<>>
              /\ children' = children
              /\ initialized' = initialized
              /\ config' = config
              /\ pc' = "done"
        /\ line.kind = "blank" /\ pc = "done" =>
              pc' \in { "done", "read" } /\ stdout' = stdout /\ children' = children
        /\ line'.kind = "eof" /\ line.kind # "eof" =>
              /\ pc' = "stopped"
              /\ stdout' = stdout
              /\ children' = children
              /\ initialized' = initialized
              /\ config' = config
        /\ pc = "stopped" => UNCHANGED vars
      ]_vars

\* the first line was answered and the second, a blank one, was skipped
C16_Witness ==
    /\ pc = "done"
    /\ lineNo = 2
    /\ line.kind = "blank"
    /\ Len(stdout) = 1
    /\ stdout[1].line = 1
    /\ sent = <<>>

\* C17: allow_all is true exactly when allowed_dirs is empty, in every
\* reachable state, and no step of the server changes default_dir,
\* allowed_dirs or allow_all.
C17_ConfigFixed ==
    /\ [](allow_all <=> Len(allowed_dirs) = 0)
    /\ [][config' = config]_vars

\* with two allowed roots, an initialize and then a tools/call that ran the
\* guard were handled, and the configuration is the one of construction
C17_Witness ==
    /\ pc = "done"
    /\ lineNo = 2
    /\ initialized
    /\ "is_directory_allowed" \in Range(steps)
    /\ allowed_dirs = <<TextWL, TextWS>>
    /\ default_dir = TextW
    /\ ~allow_all

\* What a server whose flag is `flag` makes of a request: how handle_request
\* ends, the value it returns, the execute_command call it makes up to its
\* return or its wait, and the line written when it returns or raises.
AnswerOf(flag, request, spawn_ok) ==
    LET h == handle_request_on(flag, request, spawn_ok)
    IN  [kind |-> h.kind, response |-> h.response, exec |-> h.exec,
         written |-> CASE h.kind = "return" -> send_response(h.response, request.id)
                       [] h.kind = "raise" ->
                            send_response(ErrorDict(InternalErrorCode), None)
                       [] OTHER -> <<>>]

\* C18: the response to a request does not depend on the requests handled
\* before it.  Wherever run is about to read a line, under the configuration
\* and filesystem of the run, a server that has handled initialize and one
\* that has not make the same of every request; the initialized flag, the
\* one field of the server a request changes, goes from false to true when
\* initialize is handled and at no other step, and is never reset.
C18_HistoryIndependent ==
    /\ [](AtReadline =>
            \A request \in Requests, spawn_ok \in BOOLEAN :
                AnswerOf(TRUE, request, spawn_ok) = AnswerOf(FALSE, request, spawn_ok))
    /\ [][ /\ initialized => initialized'
           /\ line'.method = "initialize" /\ lineNo' # lineNo => initialized'
           /\ initialized' # initialized
                 => line'.method = "initialize" /\ lineNo' # lineNo
           /\ config' = config
         ]_vars

\* initialize was handled, then a tools/call ran its command to success
C18_Witness ==
    /\ pc = "done"
    /\ lineNo = 2
    /\ initialized
    /\ line.method = "tools/call"
    /\ "communicate" \in Range(steps)
    /\ response.result.success
    /\ Len(stdout) = 2

\* C19: a child is started in the canonical path that passed the three
\* checks, never in the path text of the request: where a spawn is attempted,
\* its cwd is the canonical form of the call's directory, which is an existing
\* directory and authorized; a call whose directory is not authorized once
\* resolved (a symlink inside an allowed root that leaves every allowed root)
\* is refused by the guard with no spawn.
C19_SpawnInResolvedDir ==
    call.active =>
        LET where == Canonical(call.target_dir)
        IN  /\ "spawn" \in Range(steps) =>
                  /\ call.cwd = PathStr(where)
                  /\ where \in FsDirs
                  /\ Authorized(call.target_dir)
                  /\ SubSeq(steps, 1, 3) = <<"exists", "is_dir", "is_directory_allowed">>
            /\ where \in FsDirs /\ ~Authorized(call.target_dir) =>
                  /\ "spawn" \notin Range(steps)
                  /\ pc = "done"
                  /\ response.result.error = "not_allowed"
                  /\ response.result.arg = PathStr(where)

\* allowed is /w and the request names /w/l, a symlink to /wx: the guard saw
\* /wx and refused, and no child was started
C19_Witness ==
    /\ pc = "done"
    /\ allowed_dirs = <<TextWSUp>>
    /\ call.target_dir = TextWL
    /\ steps = <<"exists", "is_dir", "is_directory_allowed">>
    /\ response.result.error = "not_allowed"
    /\ response.result.arg = TextWX
    /\ children = <<>>

====
